---- MODULE Spec2Model ----
(***************************************************************************)
(* Verification model of the detection pipeline of TripletNet:             *)
(*   - utils/loss.py      MultiBoxLoss (hard-negative-mining loss)         *)
(*   - Dataset/dataset.py VOC, ParseAnnotation, VOCDataset                 *)
(*   - utils/multibox.py  MultiBox.encode (target encoder; the file is not *)
(*                        part of the sources at hand, its matching is     *)
(*                        taken from section 4.2 of the specification)     *)
(*                                                                         *)
(* Numbers.  All arithmetic is exact integer arithmetic:                   *)
(*   - location deltas are integers in half units (value n/2);             *)
(*   - smooth-L1 values are carried times 8;                               *)
(*   - logits are integers in "logit units", one unit being large enough   *)
(*     (>= 20 nats) that exp of a negative unit vanishes against 1 in      *)
(*     float32; every logit row used has a unique largest entry, so        *)
(*     log-sum-exp of the row equals its largest entry exactly and the     *)
(*     cross-entropy is an integer number of units;                        *)
(*   - a quotient x / y is carried as the pair (num, den);                 *)
(*   - N = positives + 1e-3 is carried in thousandths.                     *)
(***************************************************************************)
EXTENDS Integers, Sequences, FiniteSets, TLC

VARIABLES
    \* ---- MultiBoxLoss.forward: arguments
    label, xconf, xloc, loc, k,
    \* ---- MultiBoxLoss.forward: locals and return value
    closs, hard_neg, keep, loc_ret, conf_ret, lpc,
    \* ---- VOCDataset: the sample on disk and the constructor arguments
    anno, img_shape, keep_difficult, has_target_transform,
    \* ---- VOCDataset: which entry point is exercised, and its values
    mode, parsed, f_in, f_out, handoff, dpc,
    \* ---- MultiBox.encode: arguments and results
    gt, class_targets, matched, epc

lossVars == <<label, xconf, xloc, loc, k, closs, hard_neg, keep, loc_ret, conf_ret, lpc>>
dataVars == <<anno, img_shape, keep_difficult, has_target_transform,
              mode, parsed, f_in, f_out, handoff, dpc>>
encVars == <<gt, class_targets, matched, epc>>

vars == <<lossVars, dataVars, encVars>>

NoPair == [boxes |-> <<>>, labels |-> <<>>]

\* the parts of the state a run does not exercise
DataUnused ==
    /\ anno = <<>> /\ img_shape = <<>> /\ keep_difficult = FALSE
    /\ has_target_transform = FALSE /\ mode = "unused"
    /\ parsed = NoPair /\ f_in = NoPair /\ f_out = NoPair /\ handoff = NoPair
    /\ dpc = "unused"

EncUnused ==
    /\ gt = NoPair /\ class_targets = <<>> /\ matched = <<>> /\ epc = "unused"

(***************************************************************************)
(* Generic helpers                                                         *)
(***************************************************************************)
RECURSIVE SumFun(_, _)
\* sum of F[x] for x in S
SumFun(S, F) ==
    IF S = {} THEN 0
    ELSE LET x == CHOOSE y \in S : TRUE IN F[x] + SumFun(S \ {x}, F)

RECURSIVE SumSeq(_)
SumSeq(q) == IF q = <<>> THEN 0 ELSE Head(q) + SumSeq(Tail(q))

Abs(n) == IF n < 0 THEN -n ELSE n

MaxOfRow(row) == CHOOSE m \in {row[c] : c \in DOMAIN row} : \A c \in DOMAIN row : row[c] <= m

MinOf(x, y) == IF x <= y THEN x ELSE y

(***************************************************************************)
(* utils/loss.py                                                           *)
(***************************************************************************)
BatchSize == 2          \* samples in a batch
NumAnchors == 3         \* anchors per sample
NumClasses == 2         \* foreground classes; logits have NumClasses + 1 columns
DefaultK == 3           \* forward(..., k=3)
EpsMilli == 1           \* the 1e-3 of N, in thousandths
IgnoreIndex == -1       \* CrossEntropyLoss(ignore_index=-1)

Samples == 1..BatchSize
Anchors == 1..NumAnchors
Columns == 0..NumClasses
Coords == 1..4
Cells == Samples \X Anchors

KValues == {0, 1, DefaultK}

\* A logit row whose column `winner` leads every other column by `lead` units.
LogitRow(winner, lead) == [c \in Columns |-> IF c = winner THEN lead ELSE 0]

\* The network outputs fed to forward.  In the plain variant every anchor's
\* winning column is w and the lead grows with the anchor index; in the
\* mixed variant the winning column alternates between w and 1 - w from
\* anchor to anchor and the lead shrinks with the anchor index.
XconfFamily ==
    { [s \in Samples |-> [a \in Anchors |->
          LogitRow(IF mixed = 1 /\ (a + s) % 2 = 1 THEN 1 - w ELSE w,
                   IF mixed = 0 THEN a ELSE NumAnchors + 1 - a)]] :
      w \in {0, 1}, mixed \in {0, 1} }

Xconf0 == [s \in Samples |-> [a \in Anchors |-> LogitRow(1, a)]]

DeltaChoices == { <<0, 0, 0, 0>>, <<1, -3, 0, 2>> }
Xloc0 == [s \in Samples |-> [a \in Anchors |-> <<a, 0 - s, 2 * a, 1>>]]
Loc0 == [s \in Samples |-> [a \in Anchors |-> <<0, 0, 0, 0>>]]

\* -log softmax(row)[c] for a row with a unique, leading largest entry
CrossEntropy(row, c) == MaxOfRow(row) - row[c]

PosMaskGe(lab) == [s \in Samples |-> [a \in Anchors |-> lab[s][a] >= 0]]

\* pos = label > 0
PosMask(lab) == [s \in Samples |-> [a \in Anchors |-> lab[s][a] > 0]]

\* neg = label == 0
NegMask(lab) == [s \in Samples |-> [a \in Anchors |-> lab[s][a] = 0]]

\* label.clamp(min=0)
Clamp(lab) == [s \in Samples |-> [a \in Anchors |-> IF lab[s][a] < 0 THEN 0 ELSE lab[s][a]]]

\* 8 * smooth_l1(n / 2) with beta = 1:  0.5 d^2 if |d| < 1, else |d| - 0.5
SmoothL1x8(n) == IF Abs(n) < 2 THEN n * n ELSE 4 * Abs(n) - 4

RECURSIVE Gather(_, _, _)
\* t[pos_idx].view(-1, 4): the rows of the positive anchors, in row-major
\* order of the flat index i = (s - 1) * NumAnchors + a
Gather(t, pos, i) ==
    IF i > BatchSize * NumAnchors THEN <<>>
    ELSE LET s == ((i - 1) \div NumAnchors) + 1
             a == ((i - 1) % NumAnchors) + 1
         IN  (IF pos[s][a] THEN <<t[s][a]>> ELSE <<>>) \o Gather(t, pos, i + 1)

\* F.smooth_l1_loss(x, y, size_average=False): summed over rows and coordinates
SmoothL1Loss(xs, ys) ==
    SumSeq([r \in 1..Len(xs) |->
               SumSeq([c \in Coords |-> SmoothL1x8(xs[r][c] - ys[r][c])])])

\* self.conf_loss = CrossEntropyLoss(ignore_index=-1), default reduction:
\* the mean over the targets that are not ignore_index, a 0-dim tensor
ConfLoss(xc, target) ==
    LET counted == {c \in Cells : target[c[1]][c[2]] # IgnoreIndex}
        ce == [c \in Cells |-> CrossEntropy(xc[c[1]][c[2]], target[c[1]][c[2]])]
    IN  [shape |-> <<>>, val |-> SumFun(counted, ce), den |-> Cardinality(counted)]

\* element (s, a) of a tensor broadcast to (BatchSize, NumAnchors)
At(t, s, a) == IF t.shape = <<>> THEN t.val ELSE t.val[s][a]

Perms == {p \in [Anchors -> Anchors] : \A i, j \in Anchors : p[i] = p[j] => i = j}

\* v.sort(dim=1)[1] on one row: the index orders that sort v ascending.
\* torch.sort is not stable by default: equal values come in any order.
SortOutcomes(v) == {p \in Perms : \A i \in 1..(NumAnchors - 1) : v[p[i]] <= v[p[i + 1]]}

\* p.sort()[1] of a permutation p: its inverse, the 0-based rank of each anchor
RankOf(p) == [a \in Anchors |-> (CHOOSE i \in Anchors : p[i] = a) - 1]

HardNegRowLe(rank, n) == [a \in Anchors |-> rank[a] <= n]

\* rank < n
HardNegRow(rank, n) == [a \in Anchors |-> rank[a] < n]

\* pos.long().sum(dim=1, keepdim=True)[s]
PosCount(pos, s) == Cardinality({a \in Anchors : pos[s][a]})

\* the rows hard_neg[s] that _hard_negative_mining can return for sample s
HardNegOutcomes(loss, pos, neg, kk, s) ==
    UNION { {HardNegRow(RankOf(p), PosCount(pos, s) * kk) : p \in SortOutcomes(v)} :
            v \in {[a \in Anchors |-> At(loss, s, a) * (-1 * (IF neg[s][a] THEN 1 ELSE 0))]} }

RECURSIVE HardNegProduct(_, _, _, _, _)
HardNegProduct(loss, pos, neg, kk, s) ==
    IF s = 0 THEN {<<>>}
    ELSE {Append(h, r) : h \in HardNegProduct(loss, pos, neg, kk, s - 1),
                         r \in HardNegOutcomes(loss, pos, neg, kk, s)}

\* _hard_negative_mining(loss, pos, neg, k): the tensors it can return
HardNegativeMining(loss, pos, neg, kk) == HardNegProduct(loss, pos, neg, kk, BatchSize)

\* (pos + hard_neg).gt(0)
KeepMask(pos, hn) == [s \in Samples |-> [a \in Anchors |-> pos[s][a] \/ hn[s][a]]]

\* (conf_loss * mask.float()).sum()
MaskedSum(loss, mask) ==
    SumFun(Cells, [c \in Cells |-> At(loss, c[1], c[2]) * (IF mask[c[1]][c[2]] THEN 1 ELSE 0)])

NormNoEps(pos) == 1000 * Cardinality({c \in Cells : pos[c[1]][c[2]]})

\* N = pos.data.float().sum() + 1e-3, in thousandths
NormN(pos) == 1000 * Cardinality({c \in Cells : pos[c[1]][c[2]]}) + EpsMilli

\* forward(xloc, xconf, loc, label, k): sets every local and the return value;
\* next_pc tells a first call ("done") from a repeated one ("redone")
ForwardBody(xl, xc, l, lab, kk, next_pc) ==
    \E pos \in {PosMask(lab)}, neg \in {NegMask(lab)}, cl \in {ConfLoss(xc, Clamp(lab))} :
    \E hn \in HardNegativeMining(cl, pos, neg, kk) :
    \E loc_loss \in {SmoothL1Loss(Gather(xl, pos, 1), Gather(l, pos, 1))}, N \in {NormN(pos)} :
            /\ label' = lab /\ xconf' = xc /\ xloc' = xl /\ loc' = l /\ k' = kk
            /\ closs' = cl
            /\ hard_neg' = hn
            /\ keep' = KeepMask(pos, hn)
            /\ loc_ret' = [num |-> loc_loss, den |-> N]
            /\ conf_ret' = [num |-> MaskedSum(cl, KeepMask(pos, hn)), scale |-> cl.den, den |-> N]
            /\ lpc' = next_pc
            /\ UNCHANGED <<dataVars, encVars>>

\* label rows with p positives first, then g ignored anchors, then background;
\* the positives' classes cycle through the foreground classes
RowFamily ==
    { [a \in Anchors |-> IF a <= p THEN 1 + (a % NumClasses)
                         ELSE IF a <= p + g THEN IgnoreIndex ELSE 0] :
      p \in 0..NumAnchors, g \in 0..NumAnchors }

\* the label arrays fed to forward.  The rows are taken up to the order of the
\* anchors: the logit families grade the anchors in both directions and the
\* sort explores every order of equal values.
LabelArrays == [Samples -> RowFamily]

NoTensor == <<>>

InitLoss ==
    /\ label \in LabelArrays
    /\ xconf \in XconfFamily
    /\ k \in KValues
    /\ xloc = Xloc0 /\ loc = Loc0
    /\ closs = NoTensor /\ hard_neg = NoTensor /\ keep = NoTensor
    /\ loc_ret = NoTensor /\ conf_ret = NoTensor
    /\ lpc = "idle"
    /\ DataUnused /\ EncUnused

\* one training step's loss on the batch at hand
Forward ==
    /\ lpc = "idle"
    /\ ForwardBody(xloc, xconf, loc, label, k, "done")

SpecLoss == InitLoss /\ [][Forward]_vars

\* label rows for the localization runs: p positives first, the other anchors
\* alternately background and ignored
LocRowFamily ==
    { [a \in Anchors |-> IF a <= p THEN 1 + (a % NumClasses)
                         ELSE IF a % 2 = 0 THEN IgnoreIndex ELSE 0] :
      p \in 0..NumAnchors }

\* k = 0 selects no hard negative: the classification side is deterministic
InitLoc ==
    /\ label \in [Samples -> LocRowFamily]
    /\ xconf = Xconf0
    /\ k = 0
    /\ xloc = Xloc0 /\ loc = Loc0
    /\ closs = NoTensor /\ hard_neg = NoTensor /\ keep = NoTensor
    /\ loc_ret = NoTensor /\ conf_ret = NoTensor
    /\ lpc = "idle"
    /\ DataUnused /\ EncUnused

\* forward is called again on the same batch with the predicted or the
\* target deltas of one anchor replaced
Perturb ==
    /\ lpc = "done"
    /\ \E s \in Samples, a \in Anchors, d \in DeltaChoices, which \in {"xloc", "loc"} :
       \E xl \in {IF which = "xloc" THEN [xloc EXCEPT ![s][a] = d] ELSE xloc},
          l \in {IF which = "loc" THEN [loc EXCEPT ![s][a] = d] ELSE loc} :
          /\ <<xl, l>> # <<xloc, loc>>
          /\ ForwardBody(xl, xconf, l, label, k, "redone")

NextLoc == Forward \/ Perturb

SpecLoc == InitLoc /\ [][NextLoc]_vars

(***************************************************************************)
(* Properties of MultiBoxLoss                                              *)
(***************************************************************************)
Returned == lpc \in {"done", "redone"}
PosOf(s) == {a \in Anchors : label[s][a] > 0}
NegOf(s) == {a \in Anchors : label[s][a] = 0}
KeptNegOf(s) == {a \in NegOf(s) : keep[s][a]}
BatchPos == Cardinality({c \in Cells : label[c[1]][c[2]] > 0})
BatchKeptNeg == Cardinality({c \in Cells : label[c[1]][c[2]] = 0 /\ keep[c[1]][c[2]]})
\* the cross-entropy of anchor (s, a) alone: its own logits, its own clamped label
OwnCE(s, a) == CrossEntropy(xconf[s][a], IF label[s][a] < 0 THEN 0 ELSE label[s][a])

\* C1: the negatives of a sample kept in the classification-loss mask number
\* at most k times the positives of that sample, and the kept negatives of
\* the batch number at most k times the positives of the batch.
C1_HardNegativeBound ==
    Returned =>
        /\ \A s \in Samples : Cardinality(KeptNegOf(s)) <= k * Cardinality(PosOf(s))
        /\ BatchKeptNeg <= k * BatchPos

\* a sample with k = 1, one positive and two negatives: one negative is kept,
\* one is left out
C1_Witness ==
    /\ Returned /\ k = 1
    /\ \E s \in Samples :
          /\ Cardinality(PosOf(s)) = 1
          /\ Cardinality(NegOf(s)) = 2
          /\ Cardinality(KeptNegOf(s)) = 1

\* C2: the anchors summed into the classification loss are exactly the
\* positives and the selected hard negatives, each of which has label 0: every
\* positive is kept and no anchor with a negative (ignore) label is kept.
C2_KeptArePosOrHardNeg ==
    Returned =>
        \A s \in Samples, a \in Anchors :
            /\ label[s][a] > 0 => keep[s][a]
            /\ label[s][a] < 0 => ~keep[s][a]
            /\ (keep[s][a] /\ label[s][a] <= 0) => (hard_neg[s][a] /\ label[s][a] = 0)

\* C3: per sample, exactly min(k * pos_i, neg_i) negatives are selected, and
\* no unselected negative of the sample has a larger per-anchor loss than a
\* selected one.
C3_PerSampleTopK ==
    Returned =>
        \A s \in Samples :
            LET sel == {a \in NegOf(s) : hard_neg[s][a]}
            IN  /\ Cardinality(sel) = MinOf(k * Cardinality(PosOf(s)), Cardinality(NegOf(s)))
                /\ \A a \in sel, b \in NegOf(s) \ sel : OwnCE(s, a) >= OwnCE(s, b)

\* C4: the loss that is ranked, masked and summed has one entry per
\* (sample, anchor), the cross-entropy of that anchor's own logits against
\* its own clamped label.
C4_PerAnchorLoss ==
    Returned =>
        /\ closs.shape = <<BatchSize, NumAnchors>>
        /\ \A s \in Samples, a \in Anchors : At(closs, s, a) = OwnCE(s, a) * closs.den

\* the smooth-L1 sum over the four coordinates of the positive anchors
PositiveL1Sum ==
    SumFun({c \in Cells : label[c[1]][c[2]] > 0},
           [c \in Cells |-> SumFun(Coords,
               [j \in Coords |-> SmoothL1x8(xloc[c[1]][c[2]][j] - loc[c[1]][c[2]][j])])])

\* C5: every forward call returns as localization loss the smooth-L1 sum over
\* the positive anchors' coordinates divided by N, and a repeated call whose
\* location deltas differ from the first call's only at anchors with
\* label <= 0 returns the same localization loss.
C5_LocLossOverPositivesOnly ==
    [][/\ Returned' =>
              /\ loc_ret'.num = PositiveL1Sum'
              /\ loc_ret'.den = 1000 * BatchPos' + EpsMilli
       /\ (/\ lpc = "done" /\ lpc' = "redone"
           /\ \A s \in Samples, a \in Anchors :
                 label[s][a] > 0 => (xloc'[s][a] = xloc[s][a] /\ loc'[s][a] = loc[s][a]))
          => loc_ret' = loc_ret]_vars

\* a repeated call that changed the deltas of a non-positive anchor, in a
\* batch with two positives of non-zero loss
C5_Witness ==
    /\ lpc = "redone"
    /\ BatchPos >= 2
    /\ loc_ret.num > 0
    /\ \E s \in Samples, a \in Anchors :
          /\ label[s][a] <= 0
          /\ (xloc[s][a] # Xloc0[s][a] \/ loc[s][a] # Loc0[s][a])

\* C6: both returned losses are divided by the same N, the batch-wide
\* positive count plus epsilon, which is strictly positive for every batch,
\* also for one without positives.
C6_SharedPositiveNormalizer ==
    Returned =>
        /\ loc_ret.den = conf_ret.den
        /\ loc_ret.den = 1000 * BatchPos + EpsMilli
        /\ loc_ret.den > 0

\* a batch without positives went through forward; nothing is kept
C6_Witness ==
    /\ Returned
    /\ BatchPos = 0
    /\ loc_ret.num = 0 /\ conf_ret.num = 0

LossUnused ==
    /\ label = NoTensor /\ xconf = NoTensor /\ xloc = NoTensor /\ loc = NoTensor
    /\ k = DefaultK
    /\ closs = NoTensor /\ hard_neg = NoTensor /\ keep = NoTensor
    /\ loc_ret = NoTensor /\ conf_ret = NoTensor
    /\ lpc = "unused"

(***************************************************************************)
(* Dataset/dataset.py                                                      *)
(*                                                                         *)
(* A box coordinate is an integer number of 1/CoordUnits, so that pixel    *)
(* coordinates (multiples of CoordUnits) and normalized coordinates        *)
(* (below CoordUnits) live in the same boxes.                              *)
(***************************************************************************)
MaxObjs == 2            \* objects in an annotation, boxes in a direct filter call
CoordUnits == 4         \* coordinate resolution: units per 1.0
N_CLASSES == 20
SmallBoxThreshold == 8

CLASSES ==
    << "aeroplane", "bicycle", "bird", "boat",
       "bottle", "bus", "car", "cat", "chair",
       "cow", "diningtable", "dog", "horse",
       "motorbike", "person", "pottedplant",
       "sheep", "sofa", "train", "tvmonitor" >>

\* position of a class name in CLASSES, counted from 1
IndexOf(name) == CHOOSE i \in 1..Len(CLASSES) : CLASSES[i] = name

LabelToIdOneBased(name) == IndexOf(name)

\* label_to_id = dict(map(reversed, enumerate(CLASSES))): enumerate counts from 0
LabelToId(name) == IndexOf(name) - 1

\* label in self.classes
InClasses(name) == \E i \in 1..Len(CLASSES) : CLASSES[i] = name

\* the <name> texts that occur in the annotations of the model
RawNames == {"Aeroplane ", "tvmonitor", "head"}

\* text.lower().strip() on RawNames
LowerStrip(raw) == CASE raw = "Aeroplane " -> "aeroplane" [] OTHER -> raw

\* the <bndbox> of the model's annotation objects: xmin, ymin, xmax, ymax
AnnoBoxes == { <<1, 1, 9, 9>>, <<5, 5, 5, 9>>, <<9, 3, 4, 8>>, <<0, 0, 1, 1>> }

AnnoObjects == [name : RawNames, difficult : {0, 1}, bndbox : AnnoBoxes]

\* int(text) - 1, as a pixel coordinate
PixelMinusOne(v) == (v - 1) * CoordUnits

RECURSIVE ParseLoop(_, _, _)
\* the loop of ParseAnnotation.__call__ over tree.iter('object')
ParseLoop(objs, keepd, acc) ==
    IF objs = <<>> THEN acc
    ELSE LET obj == Head(objs)
             difficult == obj.difficult = 1
             name == LowerStrip(obj.name)
         IN  IF ~keepd /\ difficult THEN ParseLoop(Tail(objs), keepd, acc)
             ELSE IF ~InClasses(name) THEN ParseLoop(Tail(objs), keepd, acc)
             ELSE ParseLoop(Tail(objs), keepd,
                    [boxes |-> Append(acc.boxes,
                                  [j \in 1..4 |-> PixelMinusOne(obj.bndbox[j])]),
                     labels |-> Append(acc.labels, LabelToId(name))])

\* ParseAnnotation.__call__
ParseAnnotation(objs, keepd) == ParseLoop(objs, keepd, NoPair)

\* h, w as VOCDataset.filter reads them off img.shape
ImageHW(shape) ==
    IF Len(shape) = 2 THEN <<shape[1], shape[2]>>
    ELSE IF shape[1] > shape[3] THEN <<shape[1], shape[2]>>
    ELSE <<shape[2], shape[3]>>

\* np.max(boxes) over the whole input array
MaxCoord(boxes) ==
    LET all == {boxes[i][j] : i \in 1..Len(boxes), j \in 1..4}
    IN  CHOOSE m \in all : \A x \in all : x <= m

MaxCoordOfBox(boxes, box) ==
    LET all == {box[j] : j \in 1..4}
    IN  CHOOSE m \in all : \A x \in all : x <= m

\* the np.max(boxes) that filter's small-box test reads for `box`
SmallTestMax(boxes, box) == MaxCoord(boxes)

IsDegenerateStrict(box) ==
    (IF box[3] - box[1] <= box[4] - box[2] THEN box[3] - box[1] ELSE box[4] - box[2]) < 0

\* min(box[2] - box[0], box[3] - box[1]) <= 0
IsDegenerate(box) ==
    (IF box[3] - box[1] <= box[4] - box[2] THEN box[3] - box[1] ELSE box[4] - box[2]) <= 0

\* np.max(boxes) < 1 and np.sqrt((box[2] - box[0]) * w * (box[3] - box[1]) * h) < 8
\* (the product is positive here, so sqrt(x) < 8 is x < 64)
IsSmall(boxes, box, h, w) ==
    /\ SmallTestMax(boxes, box) < CoordUnits
    /\ (box[3] - box[1]) * w * (box[4] - box[2]) * h
          < SmallBoxThreshold * SmallBoxThreshold * CoordUnits * CoordUnits

RECURSIVE FilterLoop(_, _, _, _, _, _)
\* the loop of VOCDataset.filter over zip(boxes, labels)
FilterLoop(boxes, labels, i, h, w, acc) ==
    IF i > Len(boxes) \/ i > Len(labels) THEN acc
    ELSE IF IsDegenerate(boxes[i]) THEN FilterLoop(boxes, labels, i + 1, h, w, acc)
    ELSE IF IsSmall(boxes, boxes[i], h, w) THEN FilterLoop(boxes, labels, i + 1, h, w, acc)
    ELSE FilterLoop(boxes, labels, i + 1, h, w,
            [boxes |-> Append(acc.boxes, boxes[i]),
             labels |-> Append(acc.labels, labels[i])])

\* VOCDataset.filter(img, boxes, labels)
Filter(shape, boxes, labels) ==
    FilterLoop(boxes, labels, 1, ImageHW(shape)[1], ImageHW(shape)[2], NoPair)

RECURSIVE SeqsUpTo(_, _)
\* the sequences over S of length at most n
SeqsUpTo(S, n) ==
    IF n = 0 THEN {<<>>}
    ELSE LET shorter == SeqsUpTo(S, n - 1)
         IN  shorter \cup {Append(q, x) : q \in {r \in shorter : Len(r) = n - 1}, x \in S}

\* img.shape of the images cv2.imread returns in the model (H, W, C)
ReadShapes == { <<16, 32, 3>>, <<2, 9, 3>> }

\* the images and boxes of a direct call of filter
CallShapes == { <<16, 16>>, <<16, 32, 3>>, <<3, 16, 32>> }
CallBoxes ==
    { <<0, 0, 1, 1>>,
      <<0, 0, CoordUnits - 1, CoordUnits - 1>>,
      <<1, 1, 1, 2>>,
      <<2, 1, 1, 3>>,
      <<0, 0, 8 * CoordUnits, 8 * CoordUnits>> }
CallPairs == [box : CallBoxes, label : {0, N_CLASSES - 1}]

PairOfSeq(q) == [boxes |-> [i \in 1..Len(q) |-> q[i].box],
                 labels |-> [i \in 1..Len(q) |-> q[i].label]]

\* a dataset of one sample, built with transform=None and with or without a
\* target_transform
InitGetItem ==
    /\ mode = "getitem"
    /\ anno \in SeqsUpTo(AnnoObjects, MaxObjs)
    /\ img_shape \in ReadShapes
    /\ keep_difficult \in BOOLEAN
    /\ has_target_transform \in BOOLEAN
    /\ f_in = NoPair

\* the arguments of a call of filter on its own
InitCallFilter ==
    /\ mode = "filter"
    /\ anno = <<>>
    /\ img_shape \in CallShapes
    /\ keep_difficult = FALSE
    /\ has_target_transform = FALSE
    /\ f_in \in {PairOfSeq(q) : q \in SeqsUpTo(CallPairs, MaxObjs)}

InitData ==
    /\ (InitGetItem \/ InitCallFilter)
    /\ parsed = NoPair /\ f_out = NoPair /\ handoff = NoPair
    /\ dpc = "idle"
    /\ LossUnused /\ EncUnused

\* VOCDataset.__getitem__(0): parse, filter, (no transform), hand the boxes
\* and labels to target_transform or back to the caller
GetItem ==
    /\ mode = "getitem" /\ dpc = "idle"
    /\ \E p \in {ParseAnnotation(anno, keep_difficult)} :
       \E f \in {Filter(img_shape, p.boxes, p.labels)} :
          /\ parsed' = p
          /\ f_in' = p
          /\ f_out' = f
          /\ handoff' = f
    /\ dpc' = "done"
    /\ UNCHANGED <<anno, img_shape, keep_difficult, has_target_transform, mode>>
    /\ UNCHANGED <<lossVars, encVars>>

\* VOCDataset.filter(img, boxes, labels) called on its own
CallFilter ==
    /\ mode = "filter" /\ dpc = "idle"
    /\ f_out' = Filter(img_shape, f_in.boxes, f_in.labels)
    /\ dpc' = "done"
    /\ UNCHANGED <<anno, img_shape, keep_difficult, has_target_transform, mode,
                   parsed, f_in, handoff>>
    /\ UNCHANGED <<lossVars, encVars>>

NextData == GetItem \/ CallFilter

SpecData == InitData /\ [][NextData]_vars

(***************************************************************************)
(* Properties of the dataset                                               *)
(***************************************************************************)
BoxW(box) == box[3] - box[1]
BoxH(box) == box[4] - box[2]
InIdx == 1..Len(f_in.boxes)
OutIdx == 1..Len(f_out.boxes)

C8_LabelsOneBased ==
    (dpc = "done" /\ mode = "getitem") =>
        \A i \in 1..Len(handoff.labels) : handoff.labels[i] \in 1..N_CLASSES

\* C8: every ground-truth label the dataset hands on is an integer in
\* 0..N_CLASSES-1, the 0-based position in VOC.CLASSES of the name of an
\* object of the annotation (so 0 is the class 'aeroplane').
C8_LabelsZeroBased ==
    (dpc = "done" /\ mode = "getitem") =>
        /\ \A i \in 1..Len(parsed.labels) : parsed.labels[i] \in 0..(N_CLASSES - 1)
        /\ \A i \in 1..Len(handoff.labels) :
              /\ handoff.labels[i] \in 0..(N_CLASSES - 1)
              /\ \E o \in 1..Len(anno) :
                    CLASSES[handoff.labels[i] + 1] = LowerStrip(anno[o].name)

\* the labels of an aeroplane and of a tvmonitor are handed on: 0 and 19
C8_Witness ==
    /\ dpc = "done" /\ mode = "getitem"
    /\ Len(handoff.labels) = 2
    /\ handoff.labels[1] = 0
    /\ handoff.labels[2] = N_CLASSES - 1

AllBelowOne == \A i \in InIdx, j \in 1..4 : f_in.boxes[i][j] < CoordUnits
PositiveAt(i) == BoxW(f_in.boxes[i]) > 0 /\ BoxH(f_in.boxes[i]) > 0
\* sqrt(width * w * height * h) < 8 for the image size (h, w)
SmallAt(i) ==
    BoxW(f_in.boxes[i]) * ImageHW(img_shape)[2] * BoxH(f_in.boxes[i]) * ImageHW(img_shape)[1]
        < SmallBoxThreshold * SmallBoxThreshold * CoordUnits * CoordUnits
KeptByRule == {i \in InIdx : PositiveAt(i) /\ ~(AllBelowOne /\ SmallAt(i))}

\* C10: the output of filter is the input (box, label) pairs at the indices
\* with positive width and height that are not small boxes of an
\* all-below-1 input, in input order and with each box's own label; with a
\* coordinate >= 1 in the input it is exactly the positive-size pairs.
C10_FilterIsPairedSelection ==
    dpc = "done" =>
        /\ \E idx \in [OutIdx -> InIdx] :
              /\ \A x, y \in OutIdx : x < y => idx[x] < idx[y]
              /\ {idx[x] : x \in OutIdx} = KeptByRule
              /\ \A x \in OutIdx :
                    /\ f_out.boxes[x] = f_in.boxes[idx[x]]
                    /\ f_out.labels[x] = f_in.labels[idx[x]]
        /\ ~AllBelowOne => Len(f_out.boxes) = Cardinality({i \in InIdx : PositiveAt(i)})

\* a direct call on two normalized boxes of positive size with different
\* labels: the small first one is dropped, the second is kept with its label
C10_Witness ==
    /\ dpc = "done" /\ mode = "filter"
    /\ Len(f_in.boxes) = 2
    /\ AllBelowOne
    /\ PositiveAt(1) /\ PositiveAt(2)
    /\ f_in.labels[1] # f_in.labels[2]
    /\ f_out.boxes = <<f_in.boxes[2]>>
    /\ f_out.labels = <<f_in.labels[2]>>

(***************************************************************************)
(* utils/multibox.py: MultiBox.encode, after section 4.2 of the            *)
(* specification.  Boxes are in lattice units on an 8 x 4 image; an IoU is *)
(* the pair (intersection, union) and IoUs are compared by cross           *)
(* multiplication.  Location targets are not modelled.                     *)
(***************************************************************************)
MaxGt == 2              \* ground-truth boxes of an image
MatchThresholdNum == 1  \* matching threshold 0.5 = 1 / 2
MatchThresholdDen == 2

\* the anchor lattice: (center_x, center_y, width, height)
AnchorLattice == << <<2, 2, 4, 4>>, <<6, 2, 4, 4>>, <<4, 2, 8, 4>> >>
AnchorIdx == 1..Len(AnchorLattice)

\* center/size form to corner form
CenterToCorner(b) ==
    <<b[1] - (b[3] \div 2), b[2] - (b[4] \div 2), b[1] + (b[3] \div 2), b[2] + (b[4] \div 2)>>

Area(b) == (b[3] - b[1]) * (b[4] - b[2])

Overlap(lo1, hi1, lo2, hi2) ==
    LET lo == IF lo1 >= lo2 THEN lo1 ELSE lo2
        hi == IF hi1 <= hi2 THEN hi1 ELSE hi2
    IN  IF hi > lo THEN hi - lo ELSE 0

\* intersection over union, as <<intersection, union>>
Iou(a, b) ==
    LET inter == Overlap(a[1], a[3], b[1], b[3]) * Overlap(a[2], a[4], b[2], b[4])
    IN  <<inter, Area(a) + Area(b) - inter>>

IouLess(p, q) == p[1] * q[2] < q[1] * p[2]

\* entry (a, j) of the IoU matrix
IouOf(a, j, boxes) == Iou(CenterToCorner(AnchorLattice[a]), boxes[j])

\* the best-IoU anchor of ground-truth box j, the lowest index on ties
BestAnchor(j, boxes) ==
    CHOOSE a \in AnchorIdx :
        /\ \A b \in AnchorIdx : ~IouLess(IouOf(a, j, boxes), IouOf(b, j, boxes))
        /\ \A b \in 1..(a - 1) : IouLess(IouOf(b, j, boxes), IouOf(a, j, boxes))

\* the maximum-IoU ground-truth box of anchor a, the lowest index on ties
BestGt(a, boxes) ==
    CHOOSE j \in 1..Len(boxes) :
        /\ \A i \in 1..Len(boxes) : ~IouLess(IouOf(a, j, boxes), IouOf(a, i, boxes))
        /\ \A i \in 1..(j - 1) : IouLess(IouOf(a, i, boxes), IouOf(a, j, boxes))

IsForcedNever(a, boxes) == FALSE

\* anchor a is the best-IoU anchor of some ground-truth box
IsForced(a, boxes) == \E j \in 1..Len(boxes) : BestAnchor(j, boxes) = a

\* the box a forced anchor goes to: the lowest-indexed box it is best for
ForcedGt(a, boxes) ==
    CHOOSE j \in 1..Len(boxes) :
        /\ BestAnchor(j, boxes) = a
        /\ \A i \in 1..(j - 1) : BestAnchor(i, boxes) # a

\* IoU > threshold
AboveThreshold(iou) == iou[1] * MatchThresholdDen > MatchThresholdNum * iou[2]

\* encode(boxes, labels): the box each anchor is assigned to (0: none) and
\* the per-anchor class targets (0: background)
Encode(boxes, labels) ==
    IF Len(boxes) = 0
    THEN [matched |-> [a \in AnchorIdx |-> 0], class_targets |-> [a \in AnchorIdx |-> 0]]
    ELSE [matched |-> [a \in AnchorIdx |->
                          IF IsForced(a, boxes) THEN ForcedGt(a, boxes) ELSE BestGt(a, boxes)],
          class_targets |-> [a \in AnchorIdx |->
                          IF IsForced(a, boxes) THEN labels[ForcedGt(a, boxes)]
                          ELSE IF AboveThreshold(IouOf(a, BestGt(a, boxes), boxes))
                               THEN labels[BestGt(a, boxes)]
                               ELSE 0]]

\* filtered ground truth: boxes of positive size, labels of foreground classes
GtBoxes == { <<0, 0, 4, 4>>, <<1, 1, 3, 3>>, <<2, 1, 3, 3>>, <<5, 0, 8, 4>>, <<3, 1, 5, 3>> }
GtPairs == [box : GtBoxes, label : {1, 2}]

InitEnc ==
    /\ gt \in {PairOfSeq(q) : q \in SeqsUpTo(GtPairs, MaxGt)}
    /\ class_targets = <<>> /\ matched = <<>>
    /\ epc = "idle"
    /\ LossUnused /\ DataUnused

\* target_transform(bboxes, det_labels) = encoder.encode
EncodeCall ==
    /\ epc = "idle"
    /\ \E e \in {Encode(gt.boxes, gt.labels)} :
          /\ matched' = e.matched
          /\ class_targets' = e.class_targets
    /\ epc' = "done"
    /\ UNCHANGED gt
    /\ UNCHANGED <<lossVars, dataVars>>

SpecEnc == InitEnc /\ [][EncodeCall]_vars

GtIdx == 1..Len(gt.boxes)
Covered(j) == \E a \in AnchorIdx : class_targets[a] > 0 /\ matched[a] = j

====
